---- MODULE Spec2Model ----
(***************************************************************************)
(* Model of btu/btu_api/scheduler.py: the blocking Unix-domain-socket      *)
(* client SchedulerAPI._send_message_to_scheduler_socket and the           *)
(* non-blocking connection object Message (length prefix, JSON metadata    *)
(* header, payload) driven by selector read/write events.                  *)
(*                                                                         *)
(* Bytes are integers 0..255, byte strings and text are sequences of them  *)
(* (text: sequences of code points).                                       *)
(***************************************************************************)
EXTENDS Integers, Sequences, FiniteSets, TLC

VARIABLES conns, api

vars == <<conns, api>>

(***************************************************************************)
(* Python values.  One record shape for every value so that any two can be *)
(* compared: t is the type, n the number of an int/bool, s the characters  *)
(* of a str or the bytes of a bytes object, o the items of a dict as a     *)
(* sequence of <<key, value>> in insertion order.                          *)
(***************************************************************************)
None == [t |-> "none", n |-> 0, s |-> <<>>, o |-> <<>>]

PyInt(k) == [t |-> "int", n |-> k, s |-> <<>>, o |-> <<>>]

PyBool(b) == [t |-> "bool", n |-> IF b THEN 1 ELSE 0, s |-> <<>>, o |-> <<>>]

PyStr(cps) == [t |-> "str", n |-> 0, s |-> cps, o |-> <<>>]

PyBytes(b) == [t |-> "bytes", n |-> 0, s |-> b, o |-> <<>>]

PyDict(items) == [t |-> "dict", n |-> 0, s |-> <<>>, o |-> items]

\* Python truth value: `if x:`
Truthy(v) ==
    CASE v.t = "none" -> FALSE
      [] v.t = "int" -> v.n # 0
      [] v.t = "bool" -> v.n # 0
      [] v.t = "dict" -> v.o # <<>>
      [] OTHER -> v.s # <<>>

\* `key in d` for a dict d
HasKey(d, key) == \E i \in 1..Len(d.o) : d.o[i][1] = key

\* d[key] for a dict d that has the key
GetItem(d, key) == d.o[CHOOSE i \in 1..Len(d.o) : d.o[i][1] = key][2]

\* d[key] = val on the item sequence: replaces in place, else appends
SetItem(items, key, val) ==
    IF \E i \in 1..Len(items) : items[i][1] = key
    THEN [i \in 1..Len(items) |->
            IF items[i][1] = key THEN <<key, val>> ELSE items[i]]
    ELSE Append(items, <<key, val>>)

(***************************************************************************)
(* Python slicing b[:k] and b[k:] (a negative k counts from the end).      *)
(***************************************************************************)
Min(a, b) == IF a <= b THEN a ELSE b

Max(a, b) == IF a >= b THEN a ELSE b

SliceIndex(b, k) == IF k >= 0 THEN Min(k, Len(b)) ELSE Max(Len(b) + k, 0)

SliceTo(b, k) == SubSeq(b, 1, SliceIndex(b, k))

SliceFrom(b, k) == SubSeq(b, SliceIndex(b, k) + 1, Len(b))

(***************************************************************************)
(* Text constants, as code points.                                         *)
(***************************************************************************)
S_byteorder == <<98, 121, 116, 101, 111, 114, 100, 101, 114>>

S_content_type == <<99, 111, 110, 116, 101, 110, 116, 45, 116, 121, 112, 101>>

S_content_encoding ==
    <<99, 111, 110, 116, 101, 110, 116, 45, 101, 110, 99, 111, 100, 105, 110, 103>>

S_content_length ==
    <<99, 111, 110, 116, 101, 110, 116, 45, 108, 101, 110, 103, 116, 104>>

S_text_json == <<116, 101, 120, 116, 47, 106, 115, 111, 110>>

S_binary == <<98, 105, 110, 97, 114, 121>>

S_utf8 == <<117, 116, 102, 45, 56>>

S_little == <<108, 105, 116, 116, 108, 101>>

S_result == <<114, 101, 115, 117, 108, 116>>

S_pong == <<112, 111, 110, 103>>

S_null == <<110, 117, 108, 108>>

S_true == <<116, 114, 117, 101>>

S_false == <<102, 97, 108, 115, 101>>

(***************************************************************************)
(* str.encode("utf-8") and bytes.decode("utf-8") for code points below     *)
(* 2048 (one- and two-byte forms).                                         *)
(***************************************************************************)
\* the bytes of one code point
Utf8Char(c) == IF c < 128 THEN <<c>> ELSE <<192 + (c \div 64), 128 + (c % 64)>>

RECURSIVE Utf8Encode(_)
Utf8Encode(cps) ==
    IF cps = <<>> THEN <<>>
    ELSE IF Len(cps) = 1 THEN Utf8Char(cps[1])
    ELSE LET h == Len(cps) \div 2
         IN  Utf8Encode(SubSeq(cps, 1, h)) \o Utf8Encode(SubSeq(cps, h + 1, Len(cps)))

IsCont(x) == x >= 128 /\ x < 192

IsLead2(x) == x >= 194 /\ x < 224

\* [ok, cps]: ok is FALSE where Python raises UnicodeDecodeError.  A byte is
\* ASCII, or a two-byte lead followed by a continuation byte, or the
\* continuation byte of the lead before it.
Utf8Decode(b) ==
    LET valid == \A i \in 1..Len(b) :
                    \/ b[i] < 128
                    \/ IsLead2(b[i]) /\ i < Len(b) /\ IsCont(b[i + 1])
                    \/ IsCont(b[i]) /\ i > 1 /\ IsLead2(b[i - 1])
        starts == SelectSeq([i \in 1..Len(b) |-> i], LAMBDA i : ~IsCont(b[i]))
    IN  IF valid
        THEN [ok |-> TRUE,
              cps |-> [j \in 1..Len(starts) |->
                         LET i == starts[j]
                         IN  IF b[i] < 128 THEN b[i]
                             ELSE (b[i] - 192) * 64 + (b[i + 1] - 128)]]
        ELSE [ok |-> FALSE, cps |-> <<>>]

(***************************************************************************)
(* json.dumps(obj, ensure_ascii=False) for None, bool, int, str and dict   *)
(* with str keys: separators ", " and ": ", strings quoted with " and \    *)
(* escaped.                                                                *)
(***************************************************************************)
RECURSIVE IntToStr(_)
IntToStr(k) ==
    IF k < 0 THEN <<45>> \o IntToStr(0 - k)
    ELSE IF k < 10 THEN <<48 + k>>
    ELSE IntToStr(k \div 10) \o <<48 + (k % 10)>>

RECURSIVE JsonEscape(_)
JsonEscape(cps) ==
    IF cps = <<>> THEN <<>>
    ELSE IF Len(cps) = 1
         THEN IF cps[1] = 34 \/ cps[1] = 92 THEN <<92, cps[1]>> ELSE cps
    ELSE LET h == Len(cps) \div 2
         IN  JsonEscape(SubSeq(cps, 1, h)) \o JsonEscape(SubSeq(cps, h + 1, Len(cps)))

JsonQuote(cps) == <<34>> \o JsonEscape(cps) \o <<34>>

RECURSIVE JsonDumps(_)
RECURSIVE JsonDumpsItems(_)
JsonDumps(v) ==
    CASE v.t = "none" -> S_null
      [] v.t = "bool" -> IF v.n = 1 THEN S_true ELSE S_false
      [] v.t = "int" -> IntToStr(v.n)
      [] v.t = "str" -> JsonQuote(v.s)
      [] v.t = "dict" -> <<123>> \o JsonDumpsItems(v.o) \o <<125>>

JsonDumpsItems(items) ==
    IF items = <<>> THEN <<>>
    ELSE JsonQuote(items[1][1]) \o <<58, 32>> \o JsonDumps(items[1][2])
         \o (IF Len(items) > 1 THEN <<44, 32>> ELSE <<>>)
         \o JsonDumpsItems(Tail(items))

(***************************************************************************)
(* json.load on text: objects with string keys, strings with the simple    *)
(* escapes, integers, null, true, false; whitespace between tokens.  A     *)
(* result is [ok, val, next]: ok is FALSE where Python raises              *)
(* JSONDecodeError, next is the index after the value.  Arrays, floats and *)
(* \u escapes are outside the modelled grammar and are rejected.           *)
(***************************************************************************)
JsonFail == [ok |-> FALSE, val |-> None, next |-> 0]

IsWs(c) == c \in {32, 9, 10, 13}

IsDigit(c) == c >= 48 /\ c <= 57

RECURSIVE SkipWs(_, _)
SkipWs(t, i) == IF i <= Len(t) /\ IsWs(t[i]) THEN SkipWs(t, i + 1) ELSE i

HasLiteral(t, i, lit) ==
    /\ i + Len(lit) - 1 <= Len(t)
    /\ SubSeq(t, i, i + Len(lit) - 1) = lit

Unescape(c) ==
    CASE c = 34 -> 34
      [] c = 92 -> 92
      [] c = 47 -> 47
      [] c = 98 -> 8
      [] c = 102 -> 12
      [] c = 110 -> 10
      [] c = 114 -> 13
      [] c = 116 -> 9
      [] OTHER -> -1

\* t[i] is the first character after the opening quote
RECURSIVE ScanString(_, _, _)
ScanString(t, i, acc) ==
    IF i > Len(t) THEN JsonFail
    ELSE IF t[i] = 34 THEN [ok |-> TRUE, val |-> PyStr(acc), next |-> i + 1]
    ELSE IF t[i] = 92
         THEN IF i + 1 > Len(t) \/ Unescape(t[i + 1]) < 0 THEN JsonFail
              ELSE ScanString(t, i + 2, Append(acc, Unescape(t[i + 1])))
    ELSE IF t[i] < 32 THEN JsonFail
    ELSE ScanString(t, i + 1, Append(acc, t[i]))

RECURSIVE ScanDigits(_, _, _)
ScanDigits(t, i, acc) ==
    IF i <= Len(t) /\ IsDigit(t[i])
    THEN ScanDigits(t, i + 1, acc * 10 + (t[i] - 48))
    ELSE [ok |-> TRUE, val |-> PyInt(acc), next |-> i]

\* t[i] is the first digit: "0" alone, or a nonzero digit and more digits
ScanNumber(t, i) ==
    IF i > Len(t) \/ ~IsDigit(t[i]) THEN JsonFail
    ELSE IF t[i] = 48 THEN [ok |-> TRUE, val |-> PyInt(0), next |-> i + 1]
    ELSE ScanDigits(t, i, 0)

RECURSIVE ScanValue(_, _)
RECURSIVE ScanMembers(_, _, _)

\* after a member's value: "}" ends the object, "," starts the next member
MemberEnd(t, items, e) ==
    IF e > Len(t) THEN JsonFail
    ELSE IF t[e] = 125 THEN [ok |-> TRUE, val |-> PyDict(items), next |-> e + 1]
    ELSE IF t[e] = 44 THEN ScanMembers(t, SkipWs(t, e + 1), items)
    ELSE JsonFail

\* k is the scanned key, v the scanned value
MemberValue(t, items, k, v) ==
    IF ~v.ok THEN JsonFail
    ELSE MemberEnd(t, SetItem(items, k.val.s, v.val), SkipWs(t, v.next))

\* c is where the ":" after the key must be
MemberColon(t, items, k, c) ==
    IF c > Len(t) \/ t[c] # 58 THEN JsonFail
    ELSE MemberValue(t, items, k, ScanValue(t, SkipWs(t, c + 1)))

MemberKey(t, items, k) ==
    IF ~k.ok THEN JsonFail ELSE MemberColon(t, items, k, SkipWs(t, k.next))

\* t[i] is where the next key's opening quote must be
ScanMembers(t, i, items) ==
    IF i > Len(t) \/ t[i] # 34 THEN JsonFail
    ELSE MemberKey(t, items, ScanString(t, i + 1, <<>>))

\* j is the first non-blank index after "{"
ScanObject(t, j) ==
    IF j <= Len(t) /\ t[j] = 125
    THEN [ok |-> TRUE, val |-> PyDict(<<>>), next |-> j + 1]
    ELSE ScanMembers(t, j, <<>>)

Negate(r) == IF r.ok THEN [r EXCEPT !.val = PyInt(0 - r.val.n)] ELSE r

ScanValue(t, i) ==
    IF i > Len(t) THEN JsonFail
    ELSE IF t[i] = 34 THEN ScanString(t, i + 1, <<>>)
    ELSE IF t[i] = 123 THEN ScanObject(t, SkipWs(t, i + 1))
    ELSE IF t[i] = 45 THEN Negate(ScanNumber(t, i + 1))
    ELSE IF IsDigit(t[i]) THEN ScanNumber(t, i)
    ELSE IF HasLiteral(t, i, S_null)
         THEN [ok |-> TRUE, val |-> None, next |-> i + 4]
    ELSE IF HasLiteral(t, i, S_true)
         THEN [ok |-> TRUE, val |-> PyBool(TRUE), next |-> i + 4]
    ELSE IF HasLiteral(t, i, S_false)
         THEN [ok |-> TRUE, val |-> PyBool(FALSE), next |-> i + 5]
    ELSE JsonFail

\* the whole text must be one value
JsonWhole(t, v) ==
    IF v.ok /\ SkipWs(t, v.next) = Len(t) + 1
    THEN [ok |-> TRUE, val |-> v.val]
    ELSE [ok |-> FALSE, val |-> None]

\* [ok, val]
JsonLoads(t) == JsonWhole(t, ScanValue(t, SkipWs(t, 1)))

(***************************************************************************)
(* struct.pack(">H", n) and struct.unpack(">H", b)[0].                     *)
(***************************************************************************)
struct_pack_H(n) == <<n \div 256, n % 256>>

struct_unpack_H(b) == b[1] * 256 + b[2]

(***************************************************************************)
(* A connection: the fields of one Message object together with the        *)
(* selector key and the socket it was constructed with.                    *)
(*   request, recv_buffer, send_buffer, request_queued, jsonheader_len,    *)
(*   jsonheader, response, sock    the Message's fields (sock is NoSock    *)
(*                                 once close() has dropped the reference) *)
(*   registered, events            the selector's key for the socket       *)
(*   unregistered, sock_closed     completed selector.unregister and       *)
(*                                 socket.close calls                      *)
(*   wire, pos, eof                bytes the peer sends, how many recv has *)
(*                                 returned, whether recv has returned b"" *)
(*   partial                       whether a recv has returned data that   *)
(*                                 left part of the stream outstanding     *)
(*   sent                          bytes the socket accepted from send     *)
(*   exc, close_calls              exception that left the last handler    *)
(*                                 call ("none" if it returned), calls of  *)
(*                                 close()                                 *)
(***************************************************************************)
NoLen == -1

NoSock == "None"

Raise(c, e) == [c EXCEPT !.exc = e]

Ok(c) == c.exc = "none"

\* sys.byteorder of the host
sys_byteorder == S_little

\* __init__ that starts the response as empty bytes, like the buffers
__init__m(request, wire, events) ==
    [request |-> request,
     recv_buffer |-> <<>>,
     send_buffer |-> <<>>,
     request_queued |-> FALSE,
     jsonheader_len |-> NoLen,
     jsonheader |-> None,
     response |-> PyBytes(<<>>),
     sock |-> "sock",
     registered |-> TRUE,
     events |-> events,
     unregistered |-> 0,
     sock_closed |-> 0,
     wire |-> wire,
     pos |-> 0,
     eof |-> FALSE,
     partial |-> FALSE,
     sent |-> <<>>,
     exc |-> "none",
     close_calls |-> 0]

\* Message.__init__, for a socket registered with the selector for `events`
\* whose peer will send `wire`
__init__(request, wire, events) ==
    [request |-> request,
     recv_buffer |-> <<>>,
     send_buffer |-> <<>>,
     request_queued |-> FALSE,
     jsonheader_len |-> NoLen,
     jsonheader |-> None,
     response |-> None,
     sock |-> "sock",
     registered |-> TRUE,
     events |-> events,
     unregistered |-> 0,
     sock_closed |-> 0,
     wire |-> wire,
     pos |-> 0,
     eof |-> FALSE,
     partial |-> FALSE,
     sent |-> <<>>,
     exc |-> "none",
     close_calls |-> 0]

\* selector.modify(self.sock, events, data=self)
_set_selector_events_mask(c, mode) ==
    IF mode \notin {"r", "w", "rw"} THEN Raise(c, "ValueError")
    ELSE IF c.sock = NoSock \/ ~c.registered THEN Raise(c, "KeyError")
    ELSE [c EXCEPT !.events = mode]

\* _read that stores the chunk instead of appending it
_read_m(c, r) ==
    IF c.sock = NoSock THEN Raise(c, "AttributeError")
    ELSE IF r.blocked THEN c
    ELSE IF r.data # <<>>
         THEN [c EXCEPT !.recv_buffer = r.data,
                        !.pos = @ + Len(r.data),
                        !.partial = @ \/ c.pos + Len(r.data) < Len(c.wire)]
         ELSE Raise([c EXCEPT !.eof = TRUE], "RuntimeError: Peer closed.")

\* r is what self.sock.recv(4096) does: [blocked, data]; data = <<>> is b""
_read(c, r) ==
    IF c.sock = NoSock THEN Raise(c, "AttributeError")
    ELSE IF r.blocked THEN c
    ELSE IF r.data # <<>>
         THEN [c EXCEPT !.recv_buffer = @ \o r.data,
                        !.pos = @ + Len(r.data),
                        !.partial = @ \/ c.pos + Len(r.data) < Len(c.wire)]
         ELSE Raise([c EXCEPT !.eof = TRUE], "RuntimeError: Peer closed.")

\* the slice taken one byte too far
SendBufferAfter_m(c, sent) ==
    [c EXCEPT !.send_buffer = SliceFrom(@, sent + 1),
              !.sent = @ \o SliceTo(c.send_buffer, sent)]

\* self._send_buffer = self._send_buffer[sent:]
SendBufferAfter(c, sent) ==
    [c EXCEPT !.send_buffer = SliceFrom(@, sent),
              !.sent = @ \o SliceTo(c.send_buffer, sent)]

\* w is what self.sock.send(buffer) does: [blocked, room]; it accepts up to
\* room bytes
_write(c, w) ==
    IF c.send_buffer # <<>>
    THEN IF c.sock = NoSock THEN Raise(c, "AttributeError")
         ELSE IF w.blocked THEN c
         ELSE SendBufferAfter(c, Min(w.room, Len(c.send_buffer)))
    ELSE c

\* _json_encode that writes one byte per character
_json_encode_m(obj, encoding) ==
    IF encoding # S_utf8 THEN [exc |-> "LookupError", val |-> <<>>]
    ELSE IF obj.t = "bytes" THEN [exc |-> "TypeError", val |-> <<>>]
    ELSE [exc |-> "none", val |-> JsonDumps(obj)]

\* [exc, val]; only the utf-8 codec is modelled
_json_encode(obj, encoding) ==
    IF encoding # S_utf8 THEN [exc |-> "LookupError", val |-> <<>>]
    ELSE IF obj.t = "bytes" THEN [exc |-> "TypeError", val |-> <<>>]
    ELSE [exc |-> "none", val |-> Utf8Encode(JsonDumps(obj))]

\* json.load(tiow)
DecodeObj(obj) ==
    IF obj.ok THEN [exc |-> "none", val |-> obj.val]
    ELSE [exc |-> "JSONDecodeError", val |-> None]

\* io.TextIOWrapper(io.BytesIO(json_bytes), encoding=encoding)
DecodeText(text) ==
    IF ~text.ok THEN [exc |-> "UnicodeDecodeError", val |-> None]
    ELSE DecodeObj(JsonLoads(text.cps))

\* [exc, val]; encoding is a Python value (it comes from the header)
_json_decode(json_bytes, encoding) ==
    IF encoding.t # "str" THEN [exc |-> "TypeError", val |-> None]
    ELSE IF encoding.s # S_utf8 THEN [exc |-> "LookupError", val |-> None]
    ELSE DecodeText(Utf8Decode(json_bytes))

\* message_hdr + jsonheader_bytes + content_bytes
MessageBytes(jsonheader_bytes, content_bytes) ==
    struct_pack_H(Len(jsonheader_bytes)) \o jsonheader_bytes \o content_bytes

_create_message(content_bytes, content_type, content_encoding) ==
    MessageBytes(
        _json_encode(
            PyDict(<< <<S_byteorder, PyStr(sys_byteorder)>>,
                      <<S_content_type, PyStr(content_type)>>,
                      <<S_content_encoding, PyStr(content_encoding)>>,
                      <<S_content_length, PyInt(Len(content_bytes))>> >>),
            S_utf8).val,
        content_bytes)

\* content.get("result")
_process_response_json_content(c) ==
    IF c.response.t = "dict" THEN c ELSE Raise(c, "AttributeError")

_process_response_binary_content(c) == c

\* self.sock.close(); only OSError is caught; finally self.sock = None
close_sock(c) ==
    IF c.sock = NoSock THEN Raise(c, "AttributeError")
    ELSE [c EXCEPT !.sock_closed = @ + 1, !.sock = NoSock]

\* selector.unregister(self.sock); any exception is printed and dropped
close_unregister(c) ==
    IF c.sock # NoSock /\ c.registered
    THEN [c EXCEPT !.registered = FALSE, !.unregistered = @ + 1]
    ELSE c

close(c) == close_sock(close_unregister([c EXCEPT !.close_calls = @ + 1]))

\* req, for text/json, once the content is encoded: [exc, val]
EncodedMessage(request, enc) ==
    IF enc.exc # "none" THEN enc
    ELSE [exc |-> "none",
          val |-> _create_message(enc.val, request.type, request.encoding)]

\* the bytes queue_request appends: [exc, val]
RequestMessage(request) ==
    IF request.type = S_text_json
    THEN EncodedMessage(request, _json_encode(request.content, request.encoding))
    ELSE [exc |-> "none",
          val |-> _create_message(request.content.s, request.type,
                                  request.encoding)]

\* self._send_buffer += message; self._request_queued = True
QueueMessage(c, message) ==
    IF message.exc # "none" THEN Raise(c, message.exc)
    ELSE [c EXCEPT !.send_buffer = @ \o message.val, !.request_queued = TRUE]

queue_request(c) == QueueMessage(c, RequestMessage(c.request))

process_protoheader(c) ==
    LET hdrlen == 2
    IN  IF Len(c.recv_buffer) >= hdrlen
        THEN [c EXCEPT !.jsonheader_len =
                           struct_unpack_H(SliceTo(c.recv_buffer, hdrlen)),
                       !.recv_buffer = SliceFrom(@, hdrlen)]
        ELSE c

\* `reqhdr not in self.jsonheader`: [exc, val]
NotIn(reqhdr, v) ==
    CASE v.t = "dict" -> [exc |-> "none", val |-> ~HasKey(v, reqhdr)]
      [] v.t = "str" ->
            [exc |-> "none",
             val |-> ~\E i \in 1..(Len(v.s) - Len(reqhdr) + 1) :
                         SubSeq(v.s, i, i + Len(reqhdr) - 1) = reqhdr]
      [] OTHER -> [exc |-> "TypeError", val |-> FALSE]

RequiredHeaders ==
    <<S_byteorder, S_content_length, S_content_type, S_content_encoding>>

\* the for-loop over the required headers, from the i-th on
RECURSIVE CheckRequired(_, _)
CheckRequired(c, i) ==
    IF i > Len(RequiredHeaders) THEN c
    ELSE LET missing == NotIn(RequiredHeaders[i], c.jsonheader)
         IN  IF missing.exc # "none" THEN Raise(c, missing.exc)
             ELSE IF missing.val
                  THEN Raise(c, "ValueError: Missing required header")
             ELSE CheckRequired(c, i + 1)

\* process_jsonheader once _json_decode has run: d is [exc, val]
StoreHeader(c, hdrlen, d) ==
    IF d.exc # "none" THEN Raise(c, d.exc)
    ELSE CheckRequired([c EXCEPT !.jsonheader = d.val,
                                 !.recv_buffer = SliceFrom(@, hdrlen)], 1)

\* process_jsonheader without the test of the threshold
process_jsonheader_m(c) ==
    StoreHeader(c, c.jsonheader_len,
                _json_decode(SliceTo(c.recv_buffer, c.jsonheader_len),
                             PyStr(S_utf8)))

process_jsonheader(c) ==
    IF Len(c.recv_buffer) >= c.jsonheader_len
    THEN StoreHeader(c, c.jsonheader_len,
                     _json_decode(SliceTo(c.recv_buffer, c.jsonheader_len),
                                  PyStr(S_utf8)))
    ELSE c

\* self.jsonheader[key] on a truthy jsonheader: [exc, val]
Subscript(v, key) ==
    IF v.t # "dict" THEN [exc |-> "TypeError", val |-> None]
    ELSE IF ~HasKey(v, key) THEN [exc |-> "KeyError", val |-> None]
    ELSE [exc |-> "none", val |-> GetItem(v, key)]

\* process_response after the response has been stored and processed
ResponseProcessed(c) == IF Ok(c) THEN close(c) ELSE c

\* self.response = self._json_decode(data, encoding), then the json content
ResponseDecoded(c, d) ==
    IF d.exc # "none" THEN Raise(c, d.exc)
    ELSE ResponseProcessed(
             _process_response_json_content([c EXCEPT !.response = d.val]))

\* encoding = self.jsonheader["content-encoding"]
ResponseJson(c, data, encoding) ==
    IF encoding.exc # "none" THEN Raise(c, encoding.exc)
    ELSE ResponseDecoded(c, _json_decode(data, encoding.val))

\* the branch on self.jsonheader["content-type"]
ResponseByType(c, data, content_type) ==
    IF content_type.exc # "none" THEN Raise(c, content_type.exc)
    ELSE IF content_type.val = PyStr(S_text_json)
    THEN ResponseJson(c, data, Subscript(c.jsonheader, S_content_encoding))
    ELSE ResponseProcessed(
             _process_response_binary_content(
                 [c EXCEPT !.response = PyBytes(data)]))

\* process_response that does not wait for content-length bytes
ResponseData_m(c, content_len) ==
    IF content_len.exc # "none" THEN Raise(c, content_len.exc)
    ELSE IF content_len.val.t \notin {"int", "bool"} THEN Raise(c, "TypeError")
    ELSE ResponseByType(
             [c EXCEPT !.recv_buffer = SliceFrom(@, content_len.val.n)],
             SliceTo(c.recv_buffer, content_len.val.n),
             Subscript(c.jsonheader, S_content_type))

\* the threshold test, then data is cut off the receive buffer
ResponseData(c, content_len) ==
    IF content_len.exc # "none" THEN Raise(c, content_len.exc)
    ELSE IF content_len.val.t \notin {"int", "bool"} THEN Raise(c, "TypeError")
    ELSE IF ~(Len(c.recv_buffer) >= content_len.val.n) THEN c
    ELSE ResponseByType(
             [c EXCEPT !.recv_buffer = SliceFrom(@, content_len.val.n)],
             SliceTo(c.recv_buffer, content_len.val.n),
             Subscript(c.jsonheader, S_content_type))

process_response(c) == ResponseData(c, Subscript(c.jsonheader, S_content_length))

\* read() from `if self.jsonheader:` on
ReadResponse(c) ==
    IF ~Ok(c) THEN c
    ELSE IF Truthy(c.jsonheader) /\ c.response = None THEN process_response(c)
    ELSE c

\* read() from `if self._jsonheader_len is not None:` on
ReadJsonheader(c) ==
    IF c.jsonheader_len # NoLen /\ c.jsonheader = None
    THEN ReadResponse(process_jsonheader(c))
    ELSE ReadResponse(c)

\* read() from `if self._jsonheader_len is None:` on
ReadProtoheader(c) ==
    IF ~Ok(c) THEN c
    ELSE IF c.jsonheader_len = NoLen THEN ReadJsonheader(process_protoheader(c))
    ELSE ReadJsonheader(c)

read(c, r) == ReadProtoheader(_read(c, r))

\* write() that leaves the events mask as it is
WriteDone_m(c) == c

\* write() from `if self._request_queued:` on
WriteDone(c) ==
    IF ~Ok(c) THEN c
    ELSE IF c.request_queued /\ c.send_buffer = <<>>
    THEN _set_selector_events_mask(c, "r")
    ELSE c

\* write() from `self._write()` on
WriteBuffer(c, w) == IF ~Ok(c) THEN c ELSE WriteDone(_write(c, w))

\* write() that queues the request at every event
write_m(c, w) == WriteBuffer(queue_request(c), w)

write(c, w) ==
    IF ~c.request_queued THEN WriteBuffer(queue_request(c), w)
    ELSE WriteBuffer(c, w)

\* process_events from `if mask & selectors.EVENT_WRITE:` on
EventsWrite(c, mask, w) ==
    IF ~Ok(c) THEN c
    ELSE IF "w" \in mask THEN write(c, w) ELSE c

\* mask is the set of ready events the selector reports
process_events(c, mask, r, w) ==
    IF "r" \in mask THEN EventsWrite(read(c, r), mask, w)
    ELSE EventsWrite(c, mask, w)

(***************************************************************************)
(* Inputs of the connection model: the requests a Message is constructed   *)
(* with and the byte streams a peer sends.                                 *)
(***************************************************************************)
\* "request_type"
S_request_type == <<114, 101, 113, 117, 101, 115, 116, 95, 116, 121, 112, 101>>

\* "request_content"
S_request_content ==
    <<114, 101, 113, 117, 101, 115, 116, 95, 99, 111, 110, 116, 101, 110, 116>>

\* "ping"
S_ping == <<112, 105, 110, 103>>

Request(content, type) == [content |-> content, type |-> type, encoding |-> S_utf8]

\* the request mapping of a ping: {"request_type": "ping", "request_content": None}
RequestPing ==
    PyDict(<< <<S_request_type, PyStr(S_ping)>>, <<S_request_content, None>> >>)

ResultPong == PyDict(<< <<S_result, PyStr(S_pong)>> >>)

\* "é" is two bytes in utf-8
ResultAccent == PyDict(<< <<S_result, PyStr(<<233>>)>> >>)

Requests ==
    {Request(ResultPong, S_text_json),
     Request(ResultAccent, S_text_json),
     Request(PyStr(S_pong), S_text_json),
     Request(None, S_text_json),
     Request(PyBytes(<<0, 255, 10>>), S_binary),
     Request(PyBytes(<<>>), S_binary)}

\* the frames queue_request produces
CodecFrames == {RequestMessage(rq).val : rq \in Requests}

\* a frame with an arbitrary metadata header
Frame(header, payload) ==
    LET jsonheader_bytes == Utf8Encode(JsonDumps(header))
    IN  struct_pack_H(Len(jsonheader_bytes)) \o jsonheader_bytes \o payload

Header(type, length) ==
    PyDict(<< <<S_byteorder, PyStr(sys_byteorder)>>,
              <<S_content_type, PyStr(type)>>,
              <<S_content_encoding, PyStr(S_utf8)>>,
              <<S_content_length, PyInt(length)>> >>)

Without(header, key) ==
    PyDict(SelectSeq(header.o, LAMBDA item : item[1] # key))

PongBytes == Utf8Encode(JsonDumps(ResultPong))

\* frames whose header lacks one required key
MissingKeyFrames ==
    {Frame(Without(Header(S_text_json, Len(PongBytes)), key), PongBytes) :
        key \in {S_byteorder, S_content_type, S_content_encoding, S_content_length}}

\* "1234"
Extra == <<49, 50, 51, 52>>

\* streams whose payload is longer or shorter than the declared content-length,
\* or is not JSON
MismatchFrames ==
    {Frame(Header(S_text_json, Len(PongBytes)), PongBytes) \o Extra,
     Frame(Header(S_text_json, 4), S_null) \o Extra,
     Frame(Header(S_binary, 3), <<0, 255, 10>>) \o Extra,
     Frame(Header(S_text_json, 4), S_pong) \o Extra,
     Frame(Header(S_text_json, Len(PongBytes)), SliceTo(PongBytes, 10)),
     Frame(Header(S_binary, 3), <<0, 255>>)}

Wires == CodecFrames \cup MissingKeyFrames \cup MismatchFrames

\* bytes the peer sends on the connection registered for both events
RwWireLen == 1

\* what a socket is registered for when its Message is constructed
Scenarios ==
    [events : {"r"}, wire : Wires, request : {Request(ResultPong, S_text_json)}]
    \cup [events : {"w"}, wire : {<<>>},
          request : Requests \cup {Request(RequestPing, S_text_json)}]
    \cup [events : {"w"},
          wire : {RequestMessage(Request(ResultPong, S_text_json)).val},
          request : {Request(ResultPong, S_text_json)}]
    \cup [events : {"rw"},
          wire : {SliceTo(RequestMessage(Request(PyBytes(<<>>), S_binary)).val,
                          RwWireLen)},
          request : {Request(PyBytes(<<>>), S_binary)}]

\* calls of close() from outside the Message
MaxCloseCalls == 2

\* self.sock.recv(4096)
RecvSize == 4096

(***************************************************************************)
(* What the socket does on recv and send.                                  *)
(***************************************************************************)
RecvResults(c) ==
    IF c.eof THEN {[blocked |-> FALSE, data |-> <<>>]}
    ELSE {[blocked |-> TRUE, data |-> <<>>], [blocked |-> FALSE, data |-> <<>>]}
         \cup {[blocked |-> FALSE, data |-> SubSeq(c.wire, c.pos + 1, c.pos + k)] :
                  k \in 1..Min(RecvSize, Len(c.wire) - c.pos)}

\* the send buffer the next write offers to the socket
Offered(c) ==
    IF c.request_queued THEN c.send_buffer
    ELSE c.send_buffer \o RequestMessage(c.request).val

SendResults(c) ==
    {[blocked |-> TRUE, room |-> 0]}
    \cup {[blocked |-> FALSE, room |-> k] : k \in 0..Len(Offered(c))}

NoRecv == [blocked |-> TRUE, data |-> <<>>]

NoSend == [blocked |-> TRUE, room |-> 0]

\* a handler is entered: no exception yet
Begin(c) == [c EXCEPT !.exc = "none"]

(***************************************************************************)
(* The blocking client: SchedulerAPI.send_message and                      *)
(* _send_message_to_scheduler_socket, one step per statement that touches  *)
(* the configuration, the file system or the socket.                       *)
(*   pc                 "idle", "config", "connect", "send", "recv",       *)
(*                      "finally", "return", "done"                        *)
(*   message            message_as_string                                  *)
(*   socket_str, path_exists   the configured path, whether it exists      *)
(*   scheduler_socket   "unbound", "open" or "closed"                      *)
(*   timeout            the socket's timeout (0: none set)                 *)
(*   written            the bytes the socket accepted from send            *)
(*   bytes_sent, uds_response  the locals of that name                     *)
(*   reply              the bytes the daemon writes back                   *)
(*   silent             whether the daemon accepts and never writes         *)
(*   waited             seconds recv has waited for the silent daemon       *)
(*   failed             which call raised: "none", "socket", "connect",    *)
(*                      "send", "recv"                                     *)
(*   outcome, result, exc   "returned" with result, or "raised" with exc   *)
(*   connects, sends, recvs, closes   calls made on the socket             *)
(***************************************************************************)
\* "create_task_schedule"
S_create_task_schedule ==
    <<99, 114, 101, 97, 116, 101, 95, 116, 97, 115, 107, 95, 115, 99, 104,
      101, 100, 117, 108, 101>>

\* "cancel_task_schedule"
S_cancel_task_schedule ==
    <<99, 97, 110, 99, 101, 108, 95, 116, 97, 115, 107, 95, 115, 99, 104,
      101, 100, 117, 108, 101>>

\* "TS-1", a task schedule id
S_task_id == <<84, 83, 45, 49>>

\* "Exception while connecting to BTU Scheduler socket: "
S_connect_error ==
    <<69, 120, 99, 101, 112, 116, 105, 111, 110, 32, 119, 104, 105, 108,
      101, 32, 99, 111, 110, 110, 101, 99, 116, 105, 110, 103, 32, 116, 111,
      32, 66, 84, 85, 32, 83, 99, 104, 101, 100, 117, 108, 101, 114, 32,
      115, 111, 99, 107, 101, 116, 58, 32>>

\* the names of the RequestType members
RequestType == {S_create_task_schedule, S_ping, S_cancel_task_schedule}

\* scheduler_socket.settimeout(5)
SocketTimeout == 5

\* scheduler_socket.recv(2048)
RecvMax == 2048

\* length of a reply longer than one recv returns
LongReplyLen == 2050

\* replies of the daemon: a JSON result, a long one, bytes that are not utf-8
Replies == {PongBytes, [i \in 1..LongReplyLen |-> 97], <<255>>}

\* what the daemon does after it accepts: write a reply (or close), or stay
\* silent
Daemons == [reply : Replies, silent : {FALSE}] \cup [reply : {<<>>}, silent : {TRUE}]

\* the (request_type, content) pairs of send_ping, reload_task_schedule and
\* cancel_task_schedule
Calls ==
    {<<S_ping, None>>,
     <<S_create_task_schedule, PyStr(S_task_id)>>,
     <<S_cancel_task_schedule, PyStr(S_task_id)>>}

ApiIdle ==
    [pc |-> "idle",
     message |-> <<>>,
     socket_str |-> "",
     path_exists |-> FALSE,
     scheduler_socket |-> "unbound",
     timeout |-> 0,
     written |-> <<>>,
     bytes_sent |-> 0,
     uds_response |-> None,
     reply |-> <<>>,
     silent |-> FALSE,
     waited |-> 0,
     failed |-> "none",
     outcome |-> "none",
     result |-> None,
     exc |-> "none",
     connects |-> 0,
     sends |-> 0,
     recvs |-> 0,
     closes |-> 0]

ApiRaise(a, e) == [a EXCEPT !.pc = "done", !.outcome = "raised", !.exc = e]

ApiReturn(a, v) == [a EXCEPT !.pc = "done", !.outcome = "returned", !.result = v]

\* json.dumps(new_message)
send_message(a, request_type, content) ==
    IF request_type \notin RequestType THEN ApiRaise(a, "Exception")
    ELSE [a EXCEPT !.pc = "config",
                   !.message = JsonDumps(
                       PyDict(<< <<S_request_type, PyStr(request_type)>>,
                                 <<S_request_content, content>> >>))]

\* check_config without the test of the path
check_config_m(a) ==
    IF a.socket_str = "" THEN ApiRaise(a, "ValueError")
    ELSE [a EXCEPT !.pc = "connect"]

\* the checks before the socket is created
check_config(a) ==
    IF a.socket_str = "" THEN ApiRaise(a, "ValueError")
    ELSE IF ~a.path_exists THEN ApiRaise(a, "FileNotFoundError")
    ELSE [a EXCEPT !.pc = "connect"]

\* connect without settimeout(5)
connect_m(a, how) ==
    IF how = "socket"
    THEN ApiReturn([a EXCEPT !.failed = "socket"], PyStr(S_connect_error))
    ELSE IF how = "ok"
    THEN [a EXCEPT !.pc = "send", !.scheduler_socket = "open",
                   !.connects = @ + 1]
    ELSE ApiReturn([a EXCEPT !.scheduler_socket = "open",
                             !.connects = @ + 1, !.failed = "connect"],
                   PyStr(S_connect_error))

\* the first try block; how is what socket(), settimeout() and connect() do:
\* "ok", "socket" (socket.socket raises), "refused" or "timeout" (connect
\* raises)
connect(a, how) ==
    IF how = "socket"
    THEN ApiReturn([a EXCEPT !.failed = "socket"], PyStr(S_connect_error))
    ELSE IF how = "ok"
    THEN [a EXCEPT !.pc = "send", !.scheduler_socket = "open",
                   !.timeout = SocketTimeout, !.connects = @ + 1]
    ELSE ApiReturn([a EXCEPT !.scheduler_socket = "open",
                             !.timeout = SocketTimeout,
                             !.connects = @ + 1, !.failed = "connect"],
                   PyStr(S_connect_error))

\* bytes_sent = scheduler_socket.send(message_bytes); sent = -1: it raises
send(a, sent) ==
    IF sent < 0
    THEN [a EXCEPT !.pc = "finally", !.sends = @ + 1, !.failed = "send"]
    ELSE [a EXCEPT !.pc = "recv", !.sends = @ + 1, !.bytes_sent = sent,
                   !.written = SliceTo(Utf8Encode(a.message), sent)]

\* uds_response = scheduler_socket.recv(2048); got is [raises, data]
recv(a, got) ==
    IF got.raises
    THEN [a EXCEPT !.pc = "finally", !.recvs = @ + 1, !.failed = "recv"]
    ELSE [a EXCEPT !.pc = "finally", !.recvs = @ + 1,
                   !.uds_response = PyBytes(got.data)]

\* scheduler_socket.recv(2048) blocks on the silent daemon: a second passes
wait(a) == [a EXCEPT !.waited = @ + 1]

\* a socket without timeout blocks for ever on the silent daemon; one with a
\* timeout raises socket.timeout when the timeout has passed
TimedOut(a) == a.timeout > 0 /\ a.waited = a.timeout

\* recv without a size limit
RecvOutcomes_m(reply) ==
    {[raises |-> TRUE, data |-> <<>>], [raises |-> FALSE, data |-> <<>>],
     [raises |-> FALSE, data |-> SliceTo(reply, 1)],
     [raises |-> FALSE, data |-> reply]}

\* what recv(2048) can do: raise (timeout, reset), return b"" (the daemon
\* closed), return the first byte only, or all that fits
RecvOutcomes(reply) ==
    {[raises |-> TRUE, data |-> <<>>], [raises |-> FALSE, data |-> <<>>],
     [raises |-> FALSE, data |-> SliceTo(reply, 1)],
     [raises |-> FALSE, data |-> SliceTo(reply, RecvMax)]}

\* finally: scheduler_socket.close()
finally(a) ==
    [a EXCEPT !.pc = "return", !.scheduler_socket = "closed", !.closes = @ + 1]

\* uds_response.decode('utf-8')
DecodeResponse(a, text) ==
    IF text.ok THEN ApiReturn(a, PyStr(text.cps))
    ELSE ApiRaise(a, "UnicodeDecodeError")

\* the statements after the try block
return(a) ==
    IF Truthy(a.uds_response) THEN DecodeResponse(a, Utf8Decode(a.uds_response.s))
    ELSE ApiReturn(a, a.uds_response)

(***************************************************************************)
(* Connection model: the selector reports the events a registered socket   *)
(* is registered for; close() may be called from outside at any time.      *)
(***************************************************************************)
Init ==
    /\ \E sc \in Scenarios :
          conns = [id \in {1} |-> __init__(sc.request, sc.wire, sc.events)]
    /\ api = ApiIdle

ReadEvent ==
    /\ \E id \in DOMAIN conns :
          /\ conns[id].registered
          /\ conns[id].events \in {"r", "rw"}
          /\ \E r \in RecvResults(conns[id]) :
                conns' = [conns EXCEPT ![id] =
                    process_events(Begin(@), {"r"}, r, NoSend)]
    /\ UNCHANGED api

WriteEvent ==
    /\ \E id \in DOMAIN conns :
          /\ conns[id].registered
          /\ conns[id].events \in {"w", "rw"}
          /\ \E w \in SendResults(conns[id]) :
                conns' = [conns EXCEPT ![id] =
                    process_events(Begin(@), {"w"}, NoRecv, w)]
    /\ UNCHANGED api

ReadWriteEvent ==
    /\ \E id \in DOMAIN conns :
          /\ conns[id].registered
          /\ conns[id].events = "rw"
          /\ \E r \in RecvResults(conns[id]), w \in SendResults(conns[id]) :
                conns' = [conns EXCEPT ![id] =
                    process_events(Begin(@), {"r", "w"}, r, w)]
    /\ UNCHANGED api

Close ==
    /\ \E id \in DOMAIN conns :
          /\ conns[id].close_calls < MaxCloseCalls
          /\ conns' = [conns EXCEPT ![id] = close(Begin(@))]
    /\ UNCHANGED api

Next == ReadEvent \/ WriteEvent \/ ReadWriteEvent \/ Close

Spec == Init /\ [][Next]_vars

(***************************************************************************)
(* Two connections on one selector: each sends its request and reads its   *)
(* reply; the selector reports one ready socket at a time, in any order.   *)
(* recv and send move the data in a few sizes only.                        *)
(***************************************************************************)
\* the offsets of the stream at which a recv may end: in the length prefix,
\* after it, after the header, before the last byte, at the end
DuoCuts(wire) ==
    {1, 2, 2 + struct_unpack_H(SliceTo(wire, 2)), Len(wire) - 1, Len(wire)}

DuoRecvResults(c) ==
    IF c.eof THEN {[blocked |-> FALSE, data |-> <<>>]}
    ELSE {NoRecv, [blocked |-> FALSE, data |-> <<>>]}
         \cup {[blocked |-> FALSE, data |-> SubSeq(c.wire, c.pos + 1, e)] :
                  e \in {x \in DuoCuts(c.wire) : x > c.pos /\ x <= Len(c.wire)}}

\* send accepts the whole buffer, or one byte of a message not yet begun
DuoSendResults(c) ==
    {NoSend}
    \cup {[blocked |-> FALSE, room |-> k] :
             k \in {Len(Offered(c))} \cup (IF c.sent = <<>> THEN {1} ELSE {})}

\* the replies the second connection may get: the reply to its request, or a
\* frame whose header lacks content-type
DuoWires ==
    {Frame(Header(S_text_json, Len(Utf8Encode(JsonDumps(ResultAccent)))),
           Utf8Encode(JsonDumps(ResultAccent))),
     Frame(Without(Header(S_text_json, Len(PongBytes)), S_content_type), PongBytes)}

DuoInit ==
    /\ \E wire \in DuoWires :
          conns = <<__init__(Request(ResultPong, S_text_json),
                             Frame(Header(S_text_json, Len(PongBytes)), PongBytes),
                             "w"),
                    __init__(Request(ResultAccent, S_text_json), wire, "w")>>
    /\ api = ApiIdle

DuoReadEvent ==
    /\ \E id \in DOMAIN conns :
          /\ conns[id].registered
          /\ conns[id].events \in {"r", "rw"}
          /\ \E r \in DuoRecvResults(conns[id]) :
                conns' = [conns EXCEPT ![id] =
                    process_events(Begin(@), {"r"}, r, NoSend)]
    /\ UNCHANGED api

DuoWriteEvent ==
    /\ \E id \in DOMAIN conns :
          /\ conns[id].registered
          /\ conns[id].events \in {"w", "rw"}
          /\ \E w \in DuoSendResults(conns[id]) :
                conns' = [conns EXCEPT ![id] =
                    process_events(Begin(@), {"w"}, NoRecv, w)]
    /\ UNCHANGED api

DuoNext == DuoReadEvent \/ DuoWriteEvent \/ Close

DuoSpec == DuoInit /\ [][DuoNext]_vars

(***************************************************************************)
(* Client model: one call of send_message, with every outcome of the       *)
(* configuration lookup, the path check and the socket calls.              *)
(***************************************************************************)
\* a client about to call, and the daemon it will talk to
Idle(daemon) == [ApiIdle EXCEPT !.reply = daemon.reply, !.silent = daemon.silent]

ClientInit ==
    /\ conns = <<>>
    /\ \E daemon \in Daemons : api = Idle(daemon)

SendMessage ==
    /\ api.pc = "idle"
    /\ \E call \in Calls, socket_str \in {"", "/run/btu.sock"},
          path_exists \in BOOLEAN :
          api' = send_message([api EXCEPT !.socket_str = socket_str,
                                          !.path_exists = path_exists],
                              call[1], call[2])
    /\ UNCHANGED conns

CheckConfig ==
    /\ api.pc = "config"
    /\ api' = check_config(api)
    /\ UNCHANGED conns

Connect ==
    /\ api.pc = "connect"
    /\ \E how \in {"ok", "socket", "refused", "timeout"} : api' = connect(api, how)
    /\ UNCHANGED conns

Send ==
    /\ api.pc = "send"
    /\ \E sent \in {-1} \cup 1..Len(Utf8Encode(api.message)) : api' = send(api, sent)
    /\ UNCHANGED conns

Recv ==
    /\ api.pc = "recv"
    /\ IF api.silent
       THEN TimedOut(api) /\ api' = recv(api, [raises |-> TRUE, data |-> <<>>])
       ELSE \E got \in RecvOutcomes(api.reply) : api' = recv(api, got)
    /\ UNCHANGED conns

Wait ==
    /\ api.pc = "recv"
    /\ api.silent
    /\ api.waited < api.timeout
    /\ api' = wait(api)
    /\ UNCHANGED conns

Finally ==
    /\ api.pc = "finally"
    /\ api' = finally(api)
    /\ UNCHANGED conns

Return ==
    /\ api.pc = "return"
    /\ api' = return(api)
    /\ UNCHANGED conns

ClientNext ==
    SendMessage \/ CheckConfig \/ Connect \/ Send \/ Recv \/ Wait \/ Finally
        \/ Return

ClientSpec == ClientInit /\ [][ClientNext]_vars

\* the call is one thread of sequential statements: a statement that can
\* execute does, and a second of waiting passes
ClientFairSpec ==
    /\ conns = <<>>
    /\ \E daemon \in {d \in Daemons : Len(d.reply) <= RecvMax} : api = Idle(daemon)
    /\ [][ClientNext]_vars
    /\ WF_vars(ClientNext)

(***************************************************************************)
(* Properties.                                                             *)
(***************************************************************************)
\* the connection after its whole stream has arrived in a single chunk
OneChunk(c) ==
    read(__init__(c.request, c.wire, c.events), [blocked |-> FALSE, data |-> c.wire])

SameParse(c, d) ==
    /\ c.jsonheader_len = d.jsonheader_len
    /\ c.jsonheader = d.jsonheader
    /\ c.response = d.response

\* C1: once all bytes of a frame produced by the codec have been delivered, in
\* whatever chunks and with would-block reads in between, the parsed header
\* length, the parsed header and the decoded payload are those of the delivery
\* in one chunk.
C1_PartialDeliveryInvariance ==
    \A id \in DOMAIN conns :
        (conns[id].wire \in CodecFrames /\ conns[id].pos = Len(conns[id].wire))
            => SameParse(conns[id], OneChunk(conns[id]))

\* a codec frame has arrived in more than one chunk and is decoded
C1_Witness ==
    \E id \in DOMAIN conns :
        /\ conns[id].wire \in CodecFrames
        /\ conns[id].pos = Len(conns[id].wire)
        /\ conns[id].partial
        /\ conns[id].response = ResultPong

\* C2: a closed connection has been unregistered once and its socket closed
\* once, and a second call of close() raises nothing.
C2_CloseOnceAndIdempotent ==
    \A id \in DOMAIN conns :
        conns[id].close_calls >= 1
            => /\ conns[id].unregistered = 1
               /\ conns[id].sock_closed = 1
               /\ (conns[id].close_calls >= 2 => conns[id].exc = "none")

\* C3: when the call is over and a socket was created, the socket is closed.
C3_SocketClosedOnExit ==
    (api.pc = "done" /\ api.scheduler_socket # "unbound")
        => api.scheduler_socket = "closed"

\* C4: after a failure of connect, send or recv the call returns (it does not
\* raise) and what it returns is a descriptive error string.
C4_FailureReturnsError ==
    (api.pc = "done" /\ api.failed \in {"connect", "send", "recv"})
        => /\ api.outcome = "returned"
           /\ api.result.t = "str"
           /\ api.result.s # <<>>

RequiredKeys == {S_byteorder, S_content_type, S_content_encoding, S_content_length}

\* the stored header is an object that lacks a required key
HeaderRejected(c) ==
    /\ c.jsonheader.t = "dict"
    /\ \E key \in RequiredKeys : ~HasKey(c.jsonheader, key)

\* C5: a connection whose received header lacks a required key is closed
\* (unregistered, socket released) and no payload is parsed with that header.
C5_MissingKeyRejected ==
    \A id \in DOMAIN conns :
        HeaderRejected(conns[id])
            => /\ ~conns[id].registered
               /\ conns[id].sock = NoSock
               /\ conns[id].response = None

\* C6: after a read that failed because the peer closed, the connection is
\* closed: unregistered and its socket released.
C6_PeerClosedCloses ==
    \A id \in DOMAIN conns :
        conns[id].exc = "RuntimeError: Peer closed."
            => /\ ~conns[id].registered
               /\ conns[id].sock = NoSock
               /\ conns[id].sock_closed = 1

\* C7: the payload is set only if the header is set, and the header is set
\* only if the header length is set.
C7_StagesInOrder ==
    \A id \in DOMAIN conns :
        /\ conns[id].response # None => conns[id].jsonheader # None
        /\ conns[id].jsonheader # None => conns[id].jsonheader_len # NoLen

\* the three stages have completed over several reads
C7_Witness ==
    \E id \in DOMAIN conns :
        /\ conns[id].partial
        /\ conns[id].jsonheader_len # NoLen
        /\ conns[id].jsonheader # None
        /\ conns[id].response # None

\* the bytes recv has returned so far
Delivered(c) == SliceTo(c.wire, c.pos)

\* the declared content-length of the stored header (0 if there is none)
ContentLength(c) == Subscript(c.jsonheader, S_content_length).val.n

\* the first content-length bytes after the header
PayloadBytes(c) ==
    SubSeq(Delivered(c), 2 + c.jsonheader_len + 1,
           2 + c.jsonheader_len + ContentLength(c))

\* what the payload stage makes of data under the stored header
PayloadValue(c, data) ==
    IF Subscript(c.jsonheader, S_content_type).val = PyStr(S_text_json)
    THEN _json_decode(data, Subscript(c.jsonheader, S_content_encoding).val).val
    ELSE PyBytes(data)

\* C8: a payload is set only when content-length bytes have arrived after the
\* header, and it is the value of exactly the first content-length bytes that
\* follow the header.
C8_LengthAuthority ==
    \A id \in DOMAIN conns :
        conns[id].response # None
            => /\ conns[id].pos >= 2 + conns[id].jsonheader_len
                                     + ContentLength(conns[id])
               /\ conns[id].response
                      = PayloadValue(conns[id], PayloadBytes(conns[id]))

\* the queued message has been sent completely
Drained(c) == c.request_queued /\ c.send_buffer = <<>>

\* C9 as stated: a connection whose queued message has been sent completely is
\* no longer registered with the selector.
C9_ClosedAfterDrain ==
    \A id \in DOMAIN conns : Drained(conns[id]) => ~conns[id].registered

\* C9 as amended: the bytes the socket has accepted followed by the bytes still
\* buffered are the queued message; once the queued message has been sent
\* completely, and unless close() has been called, the connection is still
\* registered and open, and registered for read events only.
C9_ReadOnlyAfterDrain ==
    \A id \in DOMAIN conns :
        /\ conns[id].request_queued
              => conns[id].sent \o conns[id].send_buffer
                    = RequestMessage(conns[id].request).val
        /\ (Drained(conns[id]) /\ conns[id].close_calls = 0)
              => /\ conns[id].registered
                 /\ conns[id].sock # NoSock
                 /\ conns[id].events = "r"

\* a message has been sent in full and the connection waits for the reply
C9_Witness ==
    \E id \in DOMAIN conns :
        /\ Drained(conns[id])
        /\ conns[id].sent = RequestMessage(conns[id].request).val
        /\ conns[id].registered
        /\ conns[id].events = "r"

\* the payload stage has cut the payload off the receive buffer
PayloadConsumed(c) ==
    /\ c.jsonheader.t = "dict"
    /\ HasKey(c.jsonheader, S_content_length)
    /\ c.pos - Len(c.recv_buffer) >= 2 + c.jsonheader_len + ContentLength(c)

\* C10: a connection whose payload has been consumed is unregistered and its
\* socket is closed.
C10_ClosedAfterPayload ==
    \A id \in DOMAIN conns :
        PayloadConsumed(conns[id])
            => /\ ~conns[id].registered
               /\ conns[id].sock = NoSock

\* what the three parse stages make of the bytes b
Parsed(b) ==
    read(__init__(Request(None, S_text_json), b, "r"), [blocked |-> FALSE, data |-> b])

\* the request is text/json and the socket has accepted its whole message
SentWhole(c) ==
    /\ c.request.type = S_text_json
    /\ c.request_queued
    /\ c.sent = RequestMessage(c.request).val

\* the three stages decode b to content, with a header whose content-length is
\* the length of the encoded content, and use up the buffer
DecodesTo(d, content) ==
    /\ d.jsonheader.t = "dict"
    /\ Subscript(d.jsonheader, S_content_length).val
           = PyInt(Len(_json_encode(content, S_utf8).val))
    /\ d.response = content
    /\ d.recv_buffer = <<>>

\* C16: the three decode stages, run over the message queue_request made of a
\* text/json content and the socket accepted, give a header whose
\* content-length is the payload's length in bytes and a payload equal to the
\* content, and leave the receive buffer empty.
C16_RoundTrip ==
    \A id \in DOMAIN conns :
        SentWhole(conns[id])
            => DecodesTo(Parsed(conns[id].sent), conns[id].request.content)

\* a content with a character of two bytes has been sent
C16_Witness ==
    \E id \in DOMAIN conns :
        /\ SentWhole(conns[id])
        /\ conns[id].request.content = ResultAccent

\* the bytes accepted by the socket and the bytes still to send
Outgoing(c) == c.sent \o c.send_buffer

\* the header is a mapping with the four required keys
HeaderAccepted(c) ==
    /\ c.jsonheader.t = "dict"
    /\ \A key \in RequiredKeys : HasKey(c.jsonheader, key)

\* the state of c comes from its own request and its own stream: a reply frame
\* that has arrived whole is parsed as it is when it arrives alone in one
\* chunk, the outgoing bytes are those of its own message, and only its own
\* close() unregisters it
OwnStream(c) ==
    /\ (c.pos = Len(c.wire) /\ c.wire \in CodecFrames) => SameParse(c, OneChunk(c))
    /\ Outgoing(c) = IF c.request_queued THEN RequestMessage(c.request).val ELSE <<>>
    /\ ~c.registered => c.close_calls >= 1

\* C17: a step of one connection leaves the other connection as it was, and
\* each connection's parsed header, payload and sent bytes are those of its
\* own stream and request, whatever the other connection did.
C17_Isolation ==
    [][\A id \in DOMAIN conns :
          /\ conns'[id] # conns[id]
                => \A other \in DOMAIN conns \ {id} : conns'[other] = conns[other]
          /\ OwnStream(conns'[id])]_vars

\* the second connection has failed on its header or lost its peer, and the
\* first has sent its request and decoded its reply from several chunks
C17_Witness ==
    /\ DOMAIN conns = {1, 2}
    /\ conns[2].exc \in {"ValueError: Missing required header",
                         "RuntimeError: Peer closed."}
    /\ conns[1].sent = RequestMessage(conns[1].request).val
    /\ conns[1].partial
    /\ conns[1].response = ResultPong

\* a stage run on c below its threshold, and a read that would block, change
\* nothing; no stage is left waiting with its threshold met
StagesWait(c) ==
    /\ Len(c.recv_buffer) < 2 => process_protoheader(c) = c
    /\ (c.jsonheader_len # NoLen /\ Len(c.recv_buffer) < c.jsonheader_len)
          => process_jsonheader(c) = c
    /\ (HeaderAccepted(c) /\ Len(c.recv_buffer) < ContentLength(c))
          => process_response(c) = c
    /\ c.sock # NoSock => _read(c, NoRecv) = c
    /\ c.jsonheader_len = NoLen => Len(c.recv_buffer) < 2
    /\ (c.jsonheader_len # NoLen /\ c.jsonheader = None)
          => Len(c.recv_buffer) < c.jsonheader_len
    /\ (HeaderAccepted(c)
            /\ c.pos >= 2 + c.jsonheader_len + ContentLength(c))
          => PayloadConsumed(c)

\* C18: a parse stage below its threshold leaves the buffer and the parsed
\* fields unchanged and raises nothing, as does a read that would block, and
\* the stage has fired once the bytes it needs have arrived.
C18_ShortBufferNoEffect == \A id \in DOMAIN conns : StagesWait(conns[id])

\* the first two stages have fired and the payload stage waits with a part of
\* the payload buffered
C18_Witness ==
    \E id \in DOMAIN conns :
        /\ HeaderAccepted(conns[id])
        /\ conns[id].response = None
        /\ conns[id].exc = "none"
        /\ conns[id].recv_buffer # <<>>
        /\ Len(conns[id].recv_buffer) < ContentLength(conns[id])

\* C19: once the request is queued it stays queued and no step adds to the
\* outgoing bytes; the step that queues it makes them the message, once.
C19_QueuedOnce ==
    [][\A id \in DOMAIN conns :
          /\ conns[id].request_queued
                => /\ conns'[id].request_queued
                   /\ Outgoing(conns'[id]) = Outgoing(conns[id])
          /\ (~conns[id].request_queued /\ conns'[id].request_queued)
                => Outgoing(conns'[id]) = RequestMessage(conns[id].request).val]_vars

\* write events have sent a part of the queued message
C19_Witness ==
    \E id \in DOMAIN conns :
        /\ conns[id].request_queued
        /\ conns[id].sent # <<>>
        /\ conns[id].send_buffer # <<>>
        /\ conns[id].events \in {"w", "rw"}

\* what send can do with the buffer of c: block, or accept 0, 1 or all bytes
Sends(c) ==
    {NoSend} \cup {[blocked |-> FALSE, room |-> k] : k \in {0, 1, Len(c.send_buffer)}}

\* C20: the bytes the socket accepted followed by the send buffer are the
\* queued message (nothing before it is queued); a send that would block
\* leaves the connection as it is, and with an empty send buffer nothing is
\* sent.
C20_NoByteLost ==
    \A id \in DOMAIN conns :
        /\ Outgoing(conns[id])
              = IF conns[id].request_queued
                THEN RequestMessage(conns[id].request).val ELSE <<>>
        /\ conns[id].sock # NoSock => _write(conns[id], NoSend) = conns[id]
        /\ conns[id].send_buffer = <<>>
              => \A w \in Sends(conns[id]) : _write(conns[id], w) = conns[id]

\* all of the message but its last byte has been sent
C20_Witness ==
    \E id \in DOMAIN conns :
        /\ conns[id].request_queued
        /\ Len(conns[id].send_buffer) = 1
        /\ Len(conns[id].sent) = Len(RequestMessage(conns[id].request).val) - 1

(***************************************************************************)
(* Properties of the blocking client.                                      *)
(***************************************************************************)
\* message.encode('utf-8')
MessageBytesOf(a) == Utf8Encode(a.message)

\* C11: when the receive is issued (and after it), the bytes the socket has
\* accepted are all the bytes of the request.
C11_AllWrittenBeforeRecv ==
    (api.pc = "recv" \/ api.recvs >= 1) => api.written = MessageBytesOf(api)

\* new_message, the request mapping
RequestMapping(a) == JsonLoads(a.message).val

\* the frame the codec makes of the request mapping as text/json
FramedRequest(a) == RequestMessage(Request(RequestMapping(a), S_text_json)).val

\* C12: the bytes of a request the socket accepted whole are the codec's frame
\* of the request mapping, and the three parse stages decode that mapping
\* from them.
C12_WritesCodecFrame ==
    (api.sends >= 1 /\ api.failed # "send"
        /\ api.bytes_sent = Len(MessageBytesOf(api)))
        => /\ api.written = FramedRequest(api)
           /\ Parsed(api.written).response = RequestMapping(api)

\* the configured path does not exist and the call is over
PathMissing == api.pc = "done" /\ api.socket_str # "" /\ ~api.path_exists

\* C13 as stated: with a configured path that does not exist the call returns
\* a descriptive string, and no socket was created or connected.
C13_MissingPathReturned ==
    PathMissing
        => /\ api.outcome = "returned"
           /\ api.result.t = "str"
           /\ api.result.s # <<>>
           /\ api.scheduler_socket = "unbound"
           /\ api.connects = 0

\* C13 as amended: with a configured path that does not exist the call raises
\* FileNotFoundError to the caller and returns no value, and no socket was
\* created or connected.
C13_MissingPathRaised ==
    PathMissing
        => /\ api.outcome = "raised"
           /\ api.exc = "FileNotFoundError"
           /\ api.result = None
           /\ api.scheduler_socket = "unbound"
           /\ api.connects = 0
           /\ api.sends = 0

\* a call has ended on the path that does not exist
C13_Witness == PathMissing /\ api.exc = "FileNotFoundError"

\* C14: a receive issued to a daemon that never writes leads to the end of the
\* call: recv waited no longer than the timeout and raised, the socket is
\* closed and the call has returned.
C14_SilentDaemonReturns ==
    (api.pc = "recv" /\ api.silent)
        ~> (/\ api.pc = "done"
            /\ api.failed = "recv"
            /\ api.waited <= SocketTimeout
            /\ api.scheduler_socket = "closed"
            /\ api.outcome = "returned")

\* the call has returned after the timeout on the silent daemon
C14_Witness ==
    /\ api.pc = "done"
    /\ api.silent
    /\ api.waited = SocketTimeout
    /\ api.failed = "recv"
    /\ api.closes = 1

====
